---- MODULE Spec2Model ----
(***************************************************************************)
(* Trigger reconstruction and event alignment of run_preprocess            *)
(* (code/utilities/python-mne-tools-xdf-eeg-format/preprocessing.py).      *)
(*                                                                         *)
(* Times are exact multiples of 1/Sec second (Sec = 100, the resolution of *)
(* the literal 0.11), so the float comparisons "x > 0.11" and "x < 0.11"   *)
(* are modelled in exact arithmetic.  Sequences are 1-based in TLA+; the   *)
(* operators At and Insert translate the 0-based Python indexing.          *)
(* The assert statements are modelled as executed (python without -O).     *)
(***************************************************************************)
EXTENDS Integers, Sequences, FiniteSets, TLC

VARIABLES
    sfreq,              \* raw.info["sfreq"], samples per second
    T,                  \* behavioural events table (Expected Event Table)
    detected,           \* the detector's output as first computed (history)
    stim_onset_sample,  \* working list of trigger sample indices
    a,                  \* trigger times of the repair walk, in 1/Sec s
    b,                  \* T["time_stimon"], in 1/Sec s
    j,                  \* loop variable of the repair walk
    stop,               \* end of range(1, len(a)), fixed when the loop starts
    log,                \* positions printed by "Inserting pos:{j}" (history)
    T2,                 \* behavioural dataframe (Aligned Event Table)
    files,              \* output files written so far
    error,              \* message of the failed assert, "" if none
    pc,                 \* position in run_preprocess
    behav,              \* the table stored in the behavioural events file
    first,              \* the aligned table of an earlier reconciliation
    stim_data,          \* the samples of the Status channel
    batch,              \* run_preprocessing_pipeline: configuration, loop
                        \* position and counters
    fsys,               \* the paths that exist under the data directory
    content,            \* the format of the content of each existing path
    mat,                \* load_mat_flexible: the file and the position
    dec,                \* run_decoding: the arguments, the loop position
                        \* and the results
    inv                 \* the invocations of run_preprocess in their file
                        \* location check

\* the state of the reconciliation
recon == <<sfreq, T, detected, stim_onset_sample, a, b, j, stop, log, T2,
           files, error, pc, behav, first>>

\* the state that the reconciliation never changes
others == <<stim_data, batch, fsys, content, inv, mat, dec>>

vars == <<recon, others>>

\* ------------------------------------------------------------------------
\* Program constants
\* ------------------------------------------------------------------------
Sec == 100
InsertThreshold == 11
MatchTolerance == 11
MaxMissing == 100
TargetDelta == 13824
AdultSubjects == 20
CfgOverwrite == 0

\* ------------------------------------------------------------------------
\* Bounds of the model
\* ------------------------------------------------------------------------
MaxRows == 5
MaxTriggers == 4
MaxLongTriggers == 2
MaxSignal == 5
MaxSubjects == 2
MaxKeys == 2
MaxTypes == 2
SampleRates == {50}
ExpectedGaps == {20, 21, 40}
TriggerGaps == {10, 16, 30}

\* ------------------------------------------------------------------------
\* Python / numpy / pandas helpers
\* ------------------------------------------------------------------------
NaN == 0 - 1

At(s, i) == s[i + 1]

\* variant: the new element goes one place too far to the right
InsertAfter(s, i, x) ==
    LET p == IF i + 1 > Len(s) THEN Len(s) ELSE i + 1
    IN  [k \in 1..(Len(s) + 1) |->
            IF k <= p THEN s[k] ELSE IF k = p + 1 THEN x ELSE s[k - 1]]

\* list.insert(i, x)
Insert(s, i, x) ==
    [k \in 1..(Len(s) + 1) |->
        IF k <= i THEN s[k] ELSE IF k = i + 1 THEN x ELSE s[k - 1]]

Max(x, y) == IF x >= y THEN x ELSE y

\* int(x) / sfreq, in 1/Sec s (the sample rates of the model divide Sec)
ToSeconds(x, fs) == (x * Sec) \div fs

\* int(round(sfreq * t)) for t in 1/Sec s: round half to even
PyRound(num, den) ==
    LET q == num \div den
        r == num % den
    IN  IF 2 * r < den THEN q
        ELSE IF 2 * r > den THEN q + 1
        ELSE IF q % 2 = 0 THEN q ELSE q + 1

ToSample(t, fs) == PyRound(fs * t, Sec)

\* ------------------------------------------------------------------------
\* Inputs
\* ------------------------------------------------------------------------
RECURSIVE Cumul(_)
Cumul(g) ==
    IF Len(g) = 0 THEN << >>
    ELSE LET p == Cumul(SubSeq(g, 1, Len(g) - 1))
         IN  Append(p, (IF Len(p) = 0 THEN 0 ELSE p[Len(p)]) + g[Len(g)])

Rows(times) ==
    [k \in 1..Len(times) |-> [time_stimon |-> times[k], trial |-> k - 1]]

ShortTables ==
    UNION {{Rows(Cumul(g)) : g \in [1..n -> ExpectedGaps]} : n \in 0..MaxRows}

LongTables ==
    {Rows([k \in 1..n |-> 20 * k]) :
        n \in {MaxMissing, MaxMissing + 1} \cup (50..(50 + MaxLongTriggers))}

TriggerLists(m) ==
    UNION {{Cumul(g) : g \in [1..n -> TriggerGaps]} : n \in 0..m}

Inputs ==
    (ShortTables \X TriggerLists(MaxTriggers))
        \cup (LongTables \X TriggerLists(MaxLongTriggers))

\* the overwrite argument left out
None == 0 - 1

\* no path exists
NoContent == [p \in {} |-> ""]

\* load_mat_flexible is not running
IdleMat ==
    [pc |-> "idle", legacy |-> "", opens |-> FALSE, keys |-> << >>, k |-> 0,
     data |-> {}, error |-> ""]

\* run_decoding is not running
IdleDec ==
    [pc |-> "idle", decode_types |-> << >>, cv_schemes |-> << >>,
     overwrite |-> 0, existing |-> {}, k |-> 0,
     visited |-> << >>, skipped |-> {}, failed |-> {}, results |-> {},
     error |-> ""]

\* the pipeline is not running
IdleBatch ==
    [pc |-> "idle", active_groups |-> << >>, subjects_to_run |-> << >>,
     notebook |-> [is_file |-> FALSE, has_columns |-> FALSE, rows |-> 0],
     gi |-> 0, subject_list |-> << >>, si |-> 0,
     success_count |-> 0, fail_count |-> 0, attempts |-> << >>,
     outcomes |-> [completed |-> 0, missing_input |-> 0, raised |-> 0]]

\* ------------------------------------------------------------------------
\* run_preprocess, from the detected triggers on
\* ------------------------------------------------------------------------
Init ==
    /\ sfreq \in SampleRates
    /\ \E in \in Inputs :
        /\ T = in[1]
        /\ detected = in[2]
        /\ stim_onset_sample = in[2]
    /\ a = << >>
    /\ b = << >>
    /\ j = 0
    /\ stop = 0
    /\ log = << >>
    /\ T2 = << >>
    /\ files = {}
    /\ error = ""
    /\ pc = "fix"
    /\ behav = T
    /\ first = << >>
    /\ stim_data = << >>
    /\ batch = IdleBatch
    /\ fsys = {}
    /\ content = NoContent
    /\ mat = IdleMat
    /\ dec = IdleDec
    /\ inv = << >>

missingtriggers == Len(T) - Len(stim_onset_sample)

\* variant: the repair is also entered when no trigger is missing
NeedsRepairAlways(missing) == missing >= 0

\* line 188
NeedsRepair(missing) == missing > 0

\* variant: the assert lets exactly MaxMissing missing triggers through
TooManyMissingOffByOne(missing) == ~(missing <= MaxMissing)

\* variant: the assert already fails for half as many missing triggers
TooManyMissingAtHalf(missing) == ~(missing < MaxMissing \div 2)

\* line 191: the assert fails
TooManyMissing(missing) == ~(missing < MaxMissing)

\* variant: the walk makes one step more than there are candidates
WalkStopPastEnd(candidates) == Len(candidates) + 1

\* line 196: range(1, len(a)) is evaluated once, before the first step
WalkStop(candidates) == Len(candidates)

\* lines 187-194
FixMissing ==
    /\ pc = "fix"
    /\ IF NeedsRepair(missingtriggers)
       THEN IF TooManyMissing(missingtriggers)
            THEN /\ pc' = "failed"
                 /\ error' = "Too many missing triggers"
                 /\ UNCHANGED <<a, b, j, stop>>
            ELSE /\ a' = [k \in 1..Len(stim_onset_sample) |->
                            ToSeconds(stim_onset_sample[k], sfreq)]
                 /\ b' = [k \in 1..Len(T) |-> T[k].time_stimon]
                 /\ j' = 1
                 /\ stop' = WalkStop(stim_onset_sample)
                 /\ pc' = "walk"
                 /\ UNCHANGED error
       ELSE /\ pc' = "counts"
            /\ UNCHANGED <<a, b, j, stop, error>>
    /\ UNCHANGED <<sfreq, T, detected, stim_onset_sample, log, T2, files>>
    /\ UNCHANGED <<behav, first, others>>

\* variant: a difference of exactly the threshold inserts too
GapTooLongOrEqual(da, db) == da - db >= InsertThreshold

\* line 199
GapTooLong(da, db) == da - db > InsertThreshold

\* lines 196-208, one iteration of the for loop
WalkStep ==
    /\ pc = "walk"
    /\ j < stop
    /\ LET da == At(a, j) - At(a, j - 1)
           db == At(b, j) - At(b, j - 1)
       IN  IF GapTooLong(da, db)
           THEN /\ a' = Insert(a, j, At(a, j - 1) + db)
                /\ stim_onset_sample' =
                       Insert(stim_onset_sample, j,
                              ToSample(At(a', j - 1) + db, sfreq))
                /\ log' = Append(log, j)
           ELSE UNCHANGED <<a, stim_onset_sample, log>>
    /\ j' = j + 1
    /\ UNCHANGED <<sfreq, T, detected, b, stop, T2, files, error, pc>>
    /\ UNCHANGED <<behav, first, others>>

\* range(1, len(a)) exhausted
WalkEnd ==
    /\ pc = "walk"
    /\ j >= stop
    /\ pc' = "counts"
    /\ UNCHANGED <<sfreq, T, detected, stim_onset_sample, a, b, j, stop,
                   log, T2, files, error>>
    /\ UNCHANGED <<behav, first, others>>

\* variant: the assert on too many events is left out
CountErrorNoUpper(n, rows) ==
    IF ~(n >= rows) THEN "Found not enough events!" ELSE ""

\* variant: the two assert messages are exchanged
CountErrorSwapped(n, rows) ==
    IF ~(n <= rows) THEN "Found not enough events!"
    ELSE IF ~(n >= rows) THEN "Found too many events!"
    ELSE ""

\* variant: the assert on not enough events is left out
CountErrorNoLower(n, rows) ==
    IF ~(n <= rows) THEN "Found too many events!" ELSE ""

\* lines 213-214: the message of the first failing assert, "" if both pass
CountError(n, rows) ==
    IF ~(n <= rows) THEN "Found too many events!"
    ELSE IF ~(n >= rows) THEN "Found not enough events!"
    ELSE ""

\* lines 210-214
CheckCounts ==
    /\ pc = "counts"
    /\ error' = CountError(Len(stim_onset_sample), Len(T))
    /\ pc' = IF error' = "" THEN "build" ELSE "failed"
    /\ UNCHANGED <<sfreq, T, detected, stim_onset_sample, a, b, j, stop,
                   log, T2, files>>
    /\ UNCHANGED <<behav, first, others>>

Range(s) == {s[k] : k \in 1..Len(s)}

\* variant: eventnumber counts from one
ConcatColumnsOneBased(samples, fs, tab) ==
    [k \in 1..Max(Len(samples), Len(tab)) |->
        [onset |-> IF k <= Len(samples)
                   THEN ToSeconds(samples[k], fs) ELSE NaN,
         onsetsample |-> IF k <= Len(samples) THEN samples[k] ELSE NaN,
         eventnumber |-> IF k <= Len(samples) THEN k ELSE NaN,
         time_stimon |-> IF k <= Len(tab) THEN tab[k].time_stimon ELSE NaN,
         trial |-> IF k <= Len(tab) THEN tab[k].trial ELSE NaN]]

\* variant: onset is taken from the times of the repair walk, which hold
\* the synthesized times before rounding
ConcatColumnsWalkTimes(samples, fs, tab) ==
    [k \in 1..Max(Len(samples), Len(tab)) |->
        [onset |-> IF k <= Len(samples)
                   THEN (IF Len(a) = Len(samples) THEN a[k]
                         ELSE ToSeconds(samples[k], fs))
                   ELSE NaN,
         onsetsample |-> IF k <= Len(samples) THEN samples[k] ELSE NaN,
         eventnumber |-> IF k <= Len(samples) THEN k - 1 ELSE NaN,
         time_stimon |-> IF k <= Len(tab) THEN tab[k].time_stimon ELSE NaN,
         trial |-> IF k <= Len(tab) THEN tab[k].trial ELSE NaN]]

\* variant: the behavioural rows are attached to the detected triggers
\* only, a synthesized row getting empty behavioural cells
ConcatColumnsDetectedRows(samples, fs, tab) ==
    [k \in 1..Max(Len(samples), Len(tab)) |->
        LET synth == (k - 1) \in Range(log)
            before == Cardinality({p \in Range(log) : p + 1 < k})
            row == k - before
        IN  [onset |-> IF k <= Len(samples)
                       THEN ToSeconds(samples[k], fs) ELSE NaN,
             onsetsample |-> IF k <= Len(samples) THEN samples[k] ELSE NaN,
             eventnumber |-> IF k <= Len(samples) THEN k - 1 ELSE NaN,
             time_stimon |-> IF ~synth /\ row <= Len(tab)
                             THEN tab[row].time_stimon ELSE NaN,
             trial |-> IF ~synth /\ row <= Len(tab)
                       THEN tab[row].trial ELSE NaN]]

\* lines 231-240: pd.concat((T2, T), axis=1) joins on the row index and
\* fills the cells of a missing row with NaN
ConcatColumns(samples, fs, tab) ==
    [k \in 1..Max(Len(samples), Len(tab)) |->
        [onset |-> IF k <= Len(samples)
                   THEN ToSeconds(samples[k], fs) ELSE NaN,
         onsetsample |-> IF k <= Len(samples) THEN samples[k] ELSE NaN,
         eventnumber |-> IF k <= Len(samples) THEN k - 1 ELSE NaN,
         time_stimon |-> IF k <= Len(tab) THEN tab[k].time_stimon ELSE NaN,
         trial |-> IF k <= Len(tab) THEN tab[k].trial ELSE NaN]]

\* lines 216-240
BuildTable ==
    /\ pc = "build"
    /\ T2' = ConcatColumns(stim_onset_sample, sfreq, T)
    /\ pc' = "compare"
    /\ UNCHANGED <<sfreq, T, detected, stim_onset_sample, a, b, j, stop,
                   log, files, error>>
    /\ UNCHANGED <<behav, first, others>>

\* lines 243-245; a difference with a NaN operand is NaN
diffs(tab) ==
    [k \in 1..(Len(tab) - 1) |->
        IF NaN \in {tab[k].onset, tab[k + 1].onset,
                    tab[k].time_stimon, tab[k + 1].time_stimon}
        THEN [nan |-> TRUE, v |-> 0]
        ELSE [nan |-> FALSE,
              v |-> (tab[k + 1].onset - tab[k].onset)
                      - (tab[k + 1].time_stimon - tab[k].time_stimon)]]

\* variant: a difference of exactly the tolerance passes
TimesMatchOrEqual(d) ==
    \A k \in 1..Len(d) : ~d[k].nan /\ d[k].v <= MatchTolerance

\* np.all(diffs < 0.11); NaN < 0.11 is False
TimesMatch(d) ==
    \A k \in 1..Len(d) : ~d[k].nan /\ d[k].v < MatchTolerance

\* variant: a mismatch is only printed, the assert is left out
CompareOnsetsWarnOnly ==
    /\ pc = "compare"
    /\ pc' = "save"
    /\ UNCHANGED <<sfreq, T, detected, stim_onset_sample, a, b, j, stop,
                   log, T2, files, error>>
    /\ UNCHANGED <<behav, first, others>>

\* lines 242-251
CompareOnsets ==
    /\ pc = "compare"
    /\ IF TimesMatch(diffs(T2))
       THEN pc' = "save" /\ UNCHANGED error
       ELSE pc' = "failed" /\ error' = "Event times do not seem to match"
    /\ UNCHANGED <<sfreq, T, detected, stim_onset_sample, a, b, j, stop,
                   log, T2, files>>
    /\ UNCHANGED <<behav, first, others>>

\* variant: the sample indices are stored counted from one
StoredOneBased(tab) ==
    [k \in 1..Len(tab) |->
        [tab[k] EXCEPT !.onsetsample = tab[k].onsetsample + 1]]

\* T2.to_csv(behavfn): the rows as written to the file
Stored(tab) == tab

\* lines 253-256; behavfn is the file that T was read from
SaveBehaviour ==
    /\ pc = "save"
    /\ files' = files \cup {"events.tsv", "events.csv"}
    /\ behav' = Stored(T2)
    /\ pc' = "epoch"
    /\ UNCHANGED <<sfreq, T, detected, stim_onset_sample, a, b, j, stop,
                   log, T2, error>>
    /\ UNCHANGED <<first, others>>

\* lines 258-297
SaveEpochs ==
    /\ pc = "epoch"
    /\ files' = files \cup {"epo.fif"}
    /\ pc' = "done"
    /\ UNCHANGED <<sfreq, T, detected, stim_onset_sample, a, b, j, stop,
                   log, T2, error>>
    /\ UNCHANGED <<behav, first, others>>

\* the reconciliation of lines 187-251 applied once more, to the onset
\* samples of the stored aligned table, the expected table and the sample
\* rate being the same
ReconcileAgain ==
    /\ pc = "done"
    /\ first = << >>
    /\ first' = <<T2>>
    /\ detected' = [k \in 1..Len(behav) |-> behav[k].onsetsample]
    /\ stim_onset_sample' = detected'
    /\ a' = << >>
    /\ b' = << >>
    /\ j' = 0
    /\ stop' = 0
    /\ log' = << >>
    /\ T2' = << >>
    /\ error' = ""
    /\ pc' = "fix"
    /\ UNCHANGED <<sfreq, T, files, behav, others>>

\* ------------------------------------------------------------------------
\* The trigger detector, lines 168-175
\* ------------------------------------------------------------------------
StatusLevels == {0, TargetDelta, 2 * TargetDelta}

Signals == UNION {[1..n -> StatusLevels] : n \in 0..MaxSignal}

\* np.diff(stim_data)[0]
DiffSignal(s) == [k \in 1..(Len(s) - 1) |-> s[k + 1] - s[k]]

\* variant: every rise of at least the target delta counts
IsOnsetOrLarger(d) == d >= TargetDelta

\* == 13824
IsOnset(d) == d = TargetDelta

\* np.nonzero(mask)[0]: the 0-based indices of the true entries, ascending
NonZero(mask) ==
    SelectSeq([k \in 1..Len(mask) |-> k - 1], LAMBDA i : mask[i + 1])

FindOnsets(s) ==
    LET d == DiffSignal(s)
    IN  NonZero([k \in 1..Len(d) |-> IsOnset(d[k])])

InitDetect ==
    /\ stim_data \in Signals
    /\ sfreq \in SampleRates
    /\ T = << >>
    /\ detected = << >>
    /\ stim_onset_sample = << >>
    /\ a = << >>
    /\ b = << >>
    /\ j = 0
    /\ stop = 0
    /\ log = << >>
    /\ T2 = << >>
    /\ files = {}
    /\ error = ""
    /\ pc = "detect"
    /\ behav = << >>
    /\ first = << >>
    /\ batch = IdleBatch
    /\ fsys = {}
    /\ content = NoContent
    /\ mat = IdleMat
    /\ dec = IdleDec
    /\ inv = << >>

\* lines 168-175
Detect ==
    /\ pc = "detect"
    /\ stim_onset_sample' = FindOnsets(stim_data)
    /\ detected' = stim_onset_sample'
    /\ pc' = "fix"
    /\ UNCHANGED <<sfreq, T, a, b, j, stop, log, T2, files, error, behav,
                   first, stim_data, batch, fsys, content, inv,
                   mat, dec>>

NextDetect == Detect

SpecDetect == InitDetect /\ [][NextDetect]_vars

\* ------------------------------------------------------------------------
\* preprocessing_config and the batch loop of run_preprocessing_pipeline
\* ------------------------------------------------------------------------
\* preprocessing_config.py lines 82-137: the notebook is read only when it
\* is not a file, and reading it succeeds only when it is one
\* variant: the notebook is read when it is a file
InfantsLoadedWhenFile(nb) == nb.is_file /\ nb.has_columns

InfantsLoaded(nb) ==
    /\ ~nb.is_file
    /\ nb.is_file /\ nb.has_columns

\* cfg["participants_info"], preprocessing_config.py lines 78-156
participants_info(nb) ==
    (IF InfantsLoaded(nb)
     THEN <<[name |-> "infants", n_subjects |-> nb.rows]>>
     ELSE << >>)
        \o <<[name |-> "adults", n_subjects |-> AdultSubjects]>>

\* next((g for g in cfg["participants_info"] if g["name"] == name), None)
GroupInfo(nb, name) ==
    SelectSeq(participants_info(nb), LAMBDA g : g.name = name)

\* mne_run_all.py lines 174-187
get_subject_list(nb, subjects_to_run, group_name) ==
    IF subjects_to_run # << >> THEN subjects_to_run
    ELSE IF GroupInfo(nb, group_name) # << >>
         THEN [k \in 1..GroupInfo(nb, group_name)[1].n_subjects |-> k]
         ELSE << >>

\* what a call of run_preprocess can do: an unknown group raises
\* ValueError (preprocessing.py lines 46-57); a known one runs to the end,
\* returns early because an input file is missing (lines 125-149), or raises
Outcomes(nb, group_name) ==
    IF GroupInfo(nb, group_name) = << >> THEN {"raised"}
    ELSE {"completed", "missing_input", "raised"}

\* PipelineConfig.get_active_groups, groups_to_run listing infants first
ActiveGroupLists == {<< >>, <<"infants">>, <<"adults">>, <<"infants", "adults">>}

SubjectLists == UNION {[1..n -> 1..MaxSubjects] : n \in 0..MaxSubjects}

\* LabNotebook.csv: absent, or a file with or without the expected columns
Notebooks ==
    {nb \in [is_file : BOOLEAN, has_columns : BOOLEAN, rows : {MaxSubjects}] :
        nb.has_columns => nb.is_file}

InitBatch ==
    /\ \E g \in ActiveGroupLists, l \in SubjectLists, nb \in Notebooks :
           batch = [IdleBatch EXCEPT !.pc = "groups", !.active_groups = g,
                                     !.subjects_to_run = l, !.notebook = nb]
    /\ sfreq \in SampleRates
    /\ T = << >>
    /\ detected = << >>
    /\ stim_onset_sample = << >>
    /\ a = << >>
    /\ b = << >>
    /\ j = 0
    /\ stop = 0
    /\ log = << >>
    /\ T2 = << >>
    /\ files = {}
    /\ error = ""
    /\ pc = "batch"
    /\ behav = << >>
    /\ first = << >>
    /\ stim_data = << >>
    /\ fsys = {}
    /\ content = NoContent
    /\ mat = IdleMat
    /\ dec = IdleDec
    /\ inv = << >>

\* mne_run_all.py lines 236-241: the next group and its subject list
NextGroup ==
    /\ batch.pc = "groups"
    /\ batch.gi < Len(batch.active_groups)
    /\ batch' = [batch EXCEPT
           !.subject_list =
               get_subject_list(batch.notebook, batch.subjects_to_run,
                                batch.active_groups[batch.gi + 1]),
           !.si = 0,
           !.pc = "subjects"]
    /\ UNCHANGED <<recon, stim_data, mat, dec, fsys, content, inv>>

\* variant: a subject that raises ends the loop over its group
NextSubjectBreak(outcome, si, n) == IF outcome = "raised" THEN n ELSE si + 1

\* mne_run_all.py lines 261-263: except ... continue
NextSubject(outcome, si, n) == si + 1

\* variant: only a call that ran to the end is counted as a success
ReturnedWhenCompleted(outcome) == outcome = "completed"

\* mne_run_all.py lines 246-254: the statements after the call run whenever
\* the call returns
Returned(outcome) == outcome \in {"completed", "missing_input"}

\* mne_run_all.py lines 243-263: one subject, the call inside try/except
ProcessSubject ==
    /\ batch.pc = "subjects"
    /\ batch.si < Len(batch.subject_list)
    /\ LET group_name == batch.active_groups[batch.gi + 1]
           subjectnr == batch.subject_list[batch.si + 1]
       IN  \E outcome \in Outcomes(batch.notebook, group_name) :
               batch' = [batch EXCEPT
                   !.attempts = Append(@, <<group_name, subjectnr>>),
                   !.outcomes[outcome] = @ + 1,
                   !.success_count = IF Returned(outcome) THEN @ + 1 ELSE @,
                   !.fail_count = IF outcome = "raised" THEN @ + 1 ELSE @,
                   !.si = NextSubject(outcome, batch.si,
                                      Len(batch.subject_list))]
    /\ UNCHANGED <<recon, stim_data, mat, dec, fsys, content, inv>>

\* the loop over the subjects of a group is exhausted
EndGroup ==
    /\ batch.pc = "subjects"
    /\ batch.si >= Len(batch.subject_list)
    /\ batch' = [batch EXCEPT !.gi = @ + 1, !.pc = "groups"]
    /\ UNCHANGED <<recon, stim_data, mat, dec, fsys, content, inv>>

\* mne_run_all.py lines 265-267
FinishBatch ==
    /\ batch.pc = "groups"
    /\ batch.gi >= Len(batch.active_groups)
    /\ batch' = [batch EXCEPT !.pc = "finished"]
    /\ UNCHANGED <<recon, stim_data, mat, dec, fsys, content, inv>>

NextBatch ==
    \/ NextGroup
    \/ ProcessSubject
    \/ EndGroup
    \/ FinishBatch

SpecBatch == InitBatch /\ [][NextBatch]_vars

\* ------------------------------------------------------------------------
\* run_preprocess: the paths of a recording and the file location check
\* ------------------------------------------------------------------------
\* a path under cfg["data_dir"]; subjectnr stands for its two-digit form
\* f"{subjectnr:02d}", which differs whenever the numbers differ
Path(d, g, s, n) == [dir |-> d, group |-> g, sub |-> s, name |-> n]

\* preprocessing.py lines 73-75
source_behavfn(s) == Path("sourcedata", "", s, "task-targets_events.csv")

\* preprocessing.py lines 76-78
source_filename(s) == Path("sourcedata", "", s, "task-targets_eeg.bdf")

\* preprocessing.py lines 80-86
raw_filename(g, s) == Path("raw", g, s, "sub.bdf")

\* preprocessing.py lines 88-94
behavfn(g, s) == Path("raw", g, s, "task-targets_events.tsv")

\* preprocessing.py line 256: str(behavfn).replace(".tsv", ".csv")
behavcsv(g, s) == Path("raw", g, s, "task-targets_events.csv")

\* preprocessing.py lines 96-102
outfn(g, s) == Path("preprocessed", g, s, "mne_epo.fif")

\* every path an invocation for the recording (g, s) names
Paths(g, s) ==
    {source_behavfn(s), source_filename(s), raw_filename(g, s),
     behavfn(g, s), behavcsv(g, s), outfn(g, s)}

\* the paths that can exist before an invocation: all but the comma
\* separated copy, which only run_preprocess writes
InputPaths(g, s) == Paths(g, s) \ {behavcsv(g, s)}

Invocations == 1..2

\* how the fields of a text file are separated; other files are binary
Formats == {"comma", "tab"}

\* preprocessing.py line 255 writes the raw events file tab separated; the
\* files of sourcedata come from the recording software, in format fmt
ContentByName(p, fmt) ==
    IF p.name = "task-targets_events.tsv" THEN "tab"
    ELSE IF p.name = "task-targets_events.csv" THEN fmt
    ELSE "binary"

\* a call of run_preprocess before its first statement; start and formats
\* remember the files of the recording as the call found them
Call(c, overwrite, f, cont) ==
    [group |-> c.group, subjectnr |-> c.subjectnr, overwrite |-> overwrite,
     overwrite_arg |-> overwrite, data_ok |-> c.data_ok,
     start |-> f \cap Paths(c.group, c.subjectnr),
     formats |-> [p \in f \cap Paths(c.group, c.subjectnr) |-> cont[p]],
     pc |-> "config", result |-> "", touched |-> {},
     sep |-> "", read_format |-> ""]

\* Path.rename
Renamed(cont, src, dst) ==
    [p \in (DOMAIN cont \ {src}) \cup {dst} |->
        IF p = dst THEN cont[src] ELSE cont[p]]

GroupNames == {"infants", "adults"}

SubjectNumbers == {1, 2}

Calls == [group : GroupNames, subjectnr : SubjectNumbers, data_ok : BOOLEAN]

InitFiles ==
    /\ \E c \in [Invocations -> Calls], overwrite \in {0, 1} :
          /\ \E f \in SUBSET (UNION {InputPaths(c[i].group, c[i].subjectnr) :
                                        i \in Invocations}) :
                 /\ fsys = f
                 /\ \E fmt \in Formats :
                        content = [p \in f |-> ContentByName(p, fmt)]
                 /\ inv = [i \in Invocations |->
                              Call(c[i], overwrite, f, content)]
    /\ \E nb \in Notebooks : batch = [IdleBatch EXCEPT !.notebook = nb]
    /\ sfreq \in SampleRates
    /\ T = << >>
    /\ detected = << >>
    /\ stim_onset_sample = << >>
    /\ a = << >>
    /\ b = << >>
    /\ j = 0
    /\ stop = 0
    /\ log = << >>
    /\ T2 = << >>
    /\ files = {}
    /\ error = ""
    /\ pc = "files"
    /\ behav = << >>
    /\ first = << >>
    /\ stim_data = << >>
    /\ mat = IdleMat
    /\ dec = IdleDec

\* an invocation moves on: its position, its result and the paths it has
\* tested, read, moved or written so far
Moved(i, p, res, paths) ==
    inv' = [inv EXCEPT ![i].pc = p, ![i].result = res,
                       ![i].touched = @ \cup paths]

\* variant: a call without the argument overwrites
EffectiveOverwriteOn(overwrite) == IF overwrite = None THEN 1 ELSE overwrite

\* preprocessing.py lines 42-43
EffectiveOverwrite(overwrite) ==
    IF overwrite = None THEN CfgOverwrite ELSE overwrite

\* preprocessing.py lines 39-57
LoadConfig(i) ==
    /\ inv[i].pc = "config"
    /\ inv' = [inv EXCEPT
           ![i].overwrite = EffectiveOverwrite(@),
           ![i].pc = IF GroupInfo(batch.notebook, inv[i].group) = << >>
                     THEN "raised" ELSE "check_output",
           ![i].result = IF GroupInfo(batch.notebook, inv[i].group) = << >>
                         THEN "ValueError" ELSE ""]
    /\ UNCHANGED <<recon, stim_data, mat, dec, batch, fsys, content>>

\* preprocessing.py lines 109-111
CheckOutput(i) ==
    /\ inv[i].pc = "check_output"
    /\ LET out == outfn(inv[i].group, inv[i].subjectnr)
       IN  IF out \in fsys /\ inv[i].overwrite = 0
           THEN Moved(i, "returned", "exists", {out})
           ELSE Moved(i, "locate_behav", "", {out})
    /\ UNCHANGED <<recon, stim_data, mat, dec, batch, fsys, content>>

\* variant: the copy in sourcedata is looked for first
LocateSourceFirst(dst, src) ==
    IF src \in fsys THEN "source"
    ELSE IF dst \in fsys THEN "raw"
    ELSE "missing"

\* preprocessing.py lines 114-130 and 133-149: if / elif / else
Locate(dst, src) ==
    IF dst \in fsys THEN "raw"
    ELSE IF src \in fsys THEN "source"
    ELSE "missing"

\* preprocessing.py lines 114-130, up to the rename
LocateBehaviour(i) ==
    /\ inv[i].pc = "locate_behav"
    /\ LET dst == behavfn(inv[i].group, inv[i].subjectnr)
           src == source_behavfn(inv[i].subjectnr)
       IN  IF Locate(dst, src) = "raw"
           THEN Moved(i, "locate_eeg", "", {dst})
           ELSE IF Locate(dst, src) = "source"
           THEN Moved(i, "move_behav", "", {dst, src})
           ELSE Moved(i, "returned", "no_behaviour", {dst, src})
    /\ UNCHANGED <<recon, stim_data, mat, dec, batch, fsys, content>>

\* preprocessing.py lines 121-122: rename fails when the source is gone
MoveBehaviour(i) ==
    /\ inv[i].pc = "move_behav"
    /\ LET dst == behavfn(inv[i].group, inv[i].subjectnr)
           src == source_behavfn(inv[i].subjectnr)
       IN  IF src \in fsys
           THEN /\ fsys' = (fsys \ {src}) \cup {dst}
                /\ content' = Renamed(content, src, dst)
                /\ Moved(i, "locate_eeg", "", {dst, src})
           ELSE /\ fsys' = fsys
                /\ content' = content
                /\ Moved(i, "raised", "FileNotFoundError", {src})
    /\ UNCHANGED <<recon, stim_data, mat, dec, batch>>

\* preprocessing.py lines 133-149, up to the rename
LocateEEG(i) ==
    /\ inv[i].pc = "locate_eeg"
    /\ LET dst == raw_filename(inv[i].group, inv[i].subjectnr)
           src == source_filename(inv[i].subjectnr)
       IN  IF Locate(dst, src) = "raw"
           THEN Moved(i, "load", "", {dst})
           ELSE IF Locate(dst, src) = "source"
           THEN Moved(i, "move_eeg", "", {dst, src})
           ELSE Moved(i, "returned", "no_eeg", {dst, src})
    /\ UNCHANGED <<recon, stim_data, mat, dec, batch, fsys, content>>

\* preprocessing.py lines 140-141
MoveEEG(i) ==
    /\ inv[i].pc = "move_eeg"
    /\ LET dst == raw_filename(inv[i].group, inv[i].subjectnr)
           src == source_filename(inv[i].subjectnr)
       IN  IF src \in fsys
           THEN /\ fsys' = (fsys \ {src}) \cup {dst}
                /\ content' = Renamed(content, src, dst)
                /\ Moved(i, "load", "", {dst, src})
           ELSE /\ fsys' = fsys
                /\ content' = content
                /\ Moved(i, "raised", "FileNotFoundError", {src})
    /\ UNCHANGED <<recon, stim_data, mat, dec, batch>>

\* preprocessing.py lines 161-164: behavfn always ends with ".tsv"
Separator(p) == IF p.name = "task-targets_events.tsv" THEN "tab" ELSE "comma"

\* preprocessing.py lines 154-251: the two files are read and reconciled;
\* a table read with the wrong separator has no column time_stimon, and
\* data_ok tells whether the recording's own data passes otherwise
LoadData(i) ==
    /\ inv[i].pc = "load"
    /\ LET eeg == raw_filename(inv[i].group, inv[i].subjectnr)
           tsv == behavfn(inv[i].group, inv[i].subjectnr)
       IN  IF {eeg, tsv} \subseteq fsys
           THEN inv' = [inv EXCEPT
                    ![i].sep = Separator(tsv),
                    ![i].read_format = content[tsv],
                    ![i].touched = @ \cup {eeg, tsv},
                    ![i].pc = IF inv[i].data_ok /\ content[tsv] = Separator(tsv)
                              THEN "write" ELSE "raised",
                    ![i].result = IF inv[i].data_ok
                                     /\ content[tsv] = Separator(tsv)
                                  THEN "" ELSE "error"]
           ELSE Moved(i, "raised", "error", {eeg, tsv})
    /\ UNCHANGED <<recon, stim_data, mat, dec, batch, fsys, content>>

\* preprocessing.py lines 253-256 and 295
WriteOutputs(i) ==
    /\ inv[i].pc = "write"
    /\ LET out == {behavfn(inv[i].group, inv[i].subjectnr),
                   behavcsv(inv[i].group, inv[i].subjectnr),
                   outfn(inv[i].group, inv[i].subjectnr)}
       IN  /\ fsys' = fsys \cup out
           /\ content' = [p \in fsys \cup out |->
                             IF p \in out THEN ContentByName(p, "comma")
                             ELSE content[p]]
           /\ Moved(i, "returned", "saved", out)
    /\ UNCHANGED <<recon, stim_data, mat, dec, batch>>

\* one invocation, with the overwrite argument given or left out
InitSolo ==
    /\ \E c \in Calls, overwrite \in {None, 0, 1} :
          /\ \E f \in SUBSET InputPaths(c.group, c.subjectnr) :
                 /\ fsys = f
                 /\ \E fmt \in Formats :
                        content = [p \in f |-> ContentByName(p, fmt)]
                 /\ inv = <<Call(c, overwrite, f, content)>>
    /\ \E nb \in Notebooks : batch = [IdleBatch EXCEPT !.notebook = nb]
    /\ sfreq \in SampleRates
    /\ T = << >>
    /\ detected = << >>
    /\ stim_onset_sample = << >>
    /\ a = << >>
    /\ b = << >>
    /\ j = 0
    /\ stop = 0
    /\ log = << >>
    /\ T2 = << >>
    /\ files = {}
    /\ error = ""
    /\ pc = "files"
    /\ behav = << >>
    /\ first = << >>
    /\ stim_data = << >>
    /\ mat = IdleMat
    /\ dec = IdleDec

NextFiles ==
    \/ \E i \in Invocations : LoadConfig(i)
    \/ \E i \in Invocations : CheckOutput(i)
    \/ \E i \in Invocations : LocateBehaviour(i)
    \/ \E i \in Invocations : MoveBehaviour(i)
    \/ \E i \in Invocations : LocateEEG(i)
    \/ \E i \in Invocations : MoveEEG(i)
    \/ \E i \in Invocations : LoadData(i)
    \/ \E i \in Invocations : WriteOutputs(i)

SpecFiles == InitFiles /\ [][NextFiles]_vars

Solo == {1}

NextSolo ==
    \/ \E i \in Solo : LoadConfig(i)
    \/ \E i \in Solo : CheckOutput(i)
    \/ \E i \in Solo : LocateBehaviour(i)
    \/ \E i \in Solo : MoveBehaviour(i)
    \/ \E i \in Solo : LocateEEG(i)
    \/ \E i \in Solo : MoveEEG(i)
    \/ \E i \in Solo : LoadData(i)
    \/ \E i \in Solo : WriteOutputs(i)

SpecSolo == InitSolo /\ [][NextSolo]_vars

\* ------------------------------------------------------------------------
\* load_mat_flexible
\* ------------------------------------------------------------------------
\* what scipy.io.loadmat(file_path) does: it returns the variables, raises
\* NotImplementedError on a v7.3 file, or fails otherwise
LegacyOutcomes ==
    {"dict", "NotImplementedError", "FileNotFoundError", "ValueError",
     "TypeError"}

\* a top-level key of the HDF5 file: whether its name starts with "#",
\* the kind of object it names and whether reading it succeeds
TopLevelKeys ==
    [meta : BOOLEAN, kind : {"Dataset", "Group", "Other"},
     readable : BOOLEAN]

KeyLists == UNION {[1..n -> TopLevelKeys] : n \in 0..MaxKeys}

InitMat ==
    /\ \E l \in LegacyOutcomes, o \in BOOLEAN, ks \in KeyLists :
           mat = [IdleMat EXCEPT !.pc = "legacy", !.legacy = l,
                                 !.opens = o, !.keys = ks]
    /\ sfreq \in SampleRates
    /\ T = << >>
    /\ detected = << >>
    /\ stim_onset_sample = << >>
    /\ a = << >>
    /\ b = << >>
    /\ j = 0
    /\ stop = 0
    /\ log = << >>
    /\ T2 = << >>
    /\ files = {}
    /\ error = ""
    /\ pc = "mat"
    /\ behav = << >>
    /\ first = << >>
    /\ stim_data = << >>
    /\ batch = IdleBatch
    /\ fsys = {}
    /\ content = NoContent
    /\ dec = IdleDec
    /\ inv = << >>

\* load_mat_flexible.py line 74: except NotImplementedError
LegacyFallsThrough(outcome) == outcome = "NotImplementedError"

\* load_mat_flexible.py lines 68-78
TryLegacy ==
    /\ mat.pc = "legacy"
    /\ mat' = [mat EXCEPT
           !.pc = IF mat.legacy = "dict" THEN "returned"
                  ELSE IF LegacyFallsThrough(mat.legacy) THEN "hdf5"
                  ELSE "raised",
           !.error = IF mat.legacy = "dict" \/ LegacyFallsThrough(mat.legacy)
                     THEN "" ELSE mat.legacy]
    /\ UNCHANGED <<recon, stim_data, batch, fsys, content, inv, dec>>

\* load_mat_flexible.py lines 85-87 and 128-133
OpenHDF5 ==
    /\ mat.pc = "hdf5"
    /\ mat' = [mat EXCEPT
           !.pc = IF mat.opens THEN "keys" ELSE "raised",
           !.error = IF mat.opens THEN "" ELSE "TypeError"]
    /\ UNCHANGED <<recon, stim_data, batch, fsys, content, inv, dec>>

\* load_mat_flexible.py lines 106-118
recursively_load(key) ==
    IF key.kind = "Dataset" THEN "array"
    ELSE IF key.kind = "Group" THEN "dict"
    ELSE "None"

\* load_mat_flexible.py lines 121-124 and 128-133: one top-level key
LoadKey ==
    /\ mat.pc = "keys"
    /\ mat.k < Len(mat.keys)
    /\ LET key == mat.keys[mat.k + 1]
       IN  IF key.meta
           THEN mat' = [mat EXCEPT !.k = @ + 1]
           ELSE IF key.readable
           THEN mat' = [mat EXCEPT
                    !.k = @ + 1,
                    !.data = @ \cup {<<mat.k + 1, recursively_load(key)>>}]
           ELSE mat' = [mat EXCEPT !.pc = "raised", !.error = "TypeError"]
    /\ UNCHANGED <<recon, stim_data, batch, fsys, content, inv, dec>>

\* load_mat_flexible.py line 126
ReturnData ==
    /\ mat.pc = "keys"
    /\ mat.k >= Len(mat.keys)
    /\ mat' = [mat EXCEPT !.pc = "returned"]
    /\ UNCHANGED <<recon, stim_data, batch, fsys, content, inv, dec>>

NextMat ==
    \/ TryLegacy
    \/ OpenHDF5
    \/ LoadKey
    \/ ReturnData

SpecMat == InitMat /\ [][NextMat]_vars

\* ------------------------------------------------------------------------
\* run_decoding: the loop over the (decode_type, cv_scheme) pairs
\* ------------------------------------------------------------------------
\* the keys viewpoint_decoding_config sets (viewpoint_decoding_config.py
\* lines 110-570)
CfgDecodeKeys ==
    {"project_path", "preproc_dir", "results_dir", "figures_dir",
     "total_nstimuli", "stimnum", "slice_method", "decode_types",
     "classifier", "scoring", "n_jobs", "participants_info",
     "plot_results", "savefile", "overwrite"}

\* viewpoint_decoding_config.py line 568: cfg["overwrite"] = True
CfgDecodeOverwrite == 1

\* names are the sequences of the words that "_" joins
ValidDecodeTypes ==
    {<<"category">>, <<"identity">>, <<"size", "2class">>,
     <<"size", "3class">>}

ValidCvSchemes == {<<"one", "rotation", "out">>, <<"one", "block", "out">>}

\* the names a caller passes: valid ones and misspelt ones
DecodeTypeNames == {<<"category">>, <<"identity">>, <<"category", "one">>}

CvSchemeNames ==
    {<<"one", "rotation", "out">>, <<"one", "block", "out">>,
     <<"rotation", "out">>}

\* decoding.py line 379: f"{decode_type}_{cv_scheme}"
analysis_name(decode_type, cv_scheme) == decode_type \o cv_scheme

\* the pair at position k (from 0) of the nested loops, decoding.py lines
\* 377-378
PairAt(k) ==
    <<dec.decode_types[(k \div Len(dec.cv_schemes)) + 1],
      dec.cv_schemes[(k % Len(dec.cv_schemes)) + 1]>>

NumPairs == Len(dec.decode_types) * Len(dec.cv_schemes)

\* prepare_decoding_data, decoding.py lines 100-160: unknown names raise
\* ValueError, known ones raise when the table lacks a column
PrepareOutcomes(decode_type, cv_scheme) ==
    IF decode_type \in ValidDecodeTypes /\ cv_scheme \in ValidCvSchemes
    THEN {"prepared", "raised"}
    ELSE {"raised"}

NameLists(names) == UNION {[1..n -> names] : n \in 0..MaxTypes}

InitDec ==
    /\ \E dt \in NameLists(DecodeTypeNames), cv \in NameLists(CvSchemeNames),
          ow \in {None, 0, 1}, ex \in SUBSET DecodeTypeNames :
           dec = [IdleDec EXCEPT
               !.pc = "loop", !.decode_types = dt, !.cv_schemes = cv,
               !.overwrite = IF ow = None THEN CfgDecodeOverwrite ELSE ow,
               !.existing = {analysis_name(d, c) :
                                d \in ex, c \in CvSchemeNames}]
    /\ sfreq \in SampleRates
    /\ T = << >>
    /\ detected = << >>
    /\ stim_onset_sample = << >>
    /\ a = << >>
    /\ b = << >>
    /\ j = 0
    /\ stop = 0
    /\ log = << >>
    /\ T2 = << >>
    /\ files = {}
    /\ error = ""
    /\ pc = "decoding"
    /\ behav = << >>
    /\ first = << >>
    /\ stim_data = << >>
    /\ batch = IdleBatch
    /\ fsys = {}
    /\ content = NoContent
    /\ mat = IdleMat
    /\ inv = << >>

\* decoding.py lines 377-389: the next pair, skipped when its result file
\* exists and overwrite is off
VisitPair ==
    /\ dec.pc = "loop"
    /\ dec.k < NumPairs
    /\ LET name == analysis_name(PairAt(dec.k)[1], PairAt(dec.k)[2])
       IN  IF name \in dec.existing /\ dec.overwrite = 0
           THEN dec' = [dec EXCEPT !.visited = Append(@, PairAt(dec.k)),
                                   !.skipped = @ \cup {dec.k},
                                   !.k = @ + 1]
           ELSE dec' = [dec EXCEPT !.visited = Append(@, PairAt(dec.k)),
                                   !.pc = "prepare"]
    /\ UNCHANGED <<recon, stim_data, batch, fsys, content, inv, mat>>

\* decoding.py lines 392-402
PreparePair ==
    /\ dec.pc = "prepare"
    /\ \E outcome \in PrepareOutcomes(PairAt(dec.k)[1], PairAt(dec.k)[2]) :
           IF outcome = "raised"
           THEN dec' = [dec EXCEPT !.failed = @ \cup {dec.k}, !.k = @ + 1,
                                   !.pc = "loop"]
           ELSE dec' = [dec EXCEPT !.pc = "decode"]
    /\ UNCHANGED <<recon, stim_data, batch, fsys, content, inv, mat>>

\* decoding.py lines 405-453: run_temporal_decoding reads
\* cfg["temporal_decoding"] (line 189), the entry is stored at line 412,
\* then cfg["plotting"] and cfg["save_results"] are read (lines 424, 439)
DecodePair ==
    /\ dec.pc = "decode"
    /\ LET name == analysis_name(PairAt(dec.k)[1], PairAt(dec.k)[2])
       IN  IF "temporal_decoding" \notin CfgDecodeKeys
           THEN dec' = [dec EXCEPT !.pc = "raised", !.error = "KeyError"]
           ELSE IF {"plotting", "save_results"} \subseteq CfgDecodeKeys
           THEN dec' = [dec EXCEPT !.results = @ \cup {name},
                                   !.existing = @ \cup {name},
                                   !.k = @ + 1, !.pc = "loop"]
           ELSE dec' = [dec EXCEPT !.results = @ \cup {name},
                                   !.pc = "raised", !.error = "KeyError"]
    /\ UNCHANGED <<recon, stim_data, batch, fsys, content, inv, mat>>

\* decoding.py lines 455-467: cfg["save_results"] is read, then the
\* results are returned
FinishDecoding ==
    /\ dec.pc = "loop"
    /\ dec.k >= NumPairs
    /\ IF "save_results" \in CfgDecodeKeys
       THEN dec' = [dec EXCEPT !.pc = "returned"]
       ELSE dec' = [dec EXCEPT !.pc = "raised", !.error = "KeyError"]
    /\ UNCHANGED <<recon, stim_data, batch, fsys, content, inv, mat>>

NextDec ==
    \/ VisitPair
    \/ PreparePair
    \/ DecodePair
    \/ FinishDecoding

SpecDec == InitDec /\ [][NextDec]_vars

Next ==
    \/ ReconcileAgain
    \/ FixMissing
    \/ WalkStep
    \/ WalkEnd
    \/ CheckCounts
    \/ BuildTable
    \/ CompareOnsets
    \/ SaveBehaviour
    \/ SaveEpochs

Spec == Init /\ [][Next]_vars

\* expected gaps of one sample, of eleven and a half samples and of thirty
\* samples, in 1/Sec s
DenseGaps == {2, 23, 60}

DenseTables ==
    UNION {{Rows(Cumul(g)) : g \in [1..n -> DenseGaps]} : n \in 0..MaxRows}

\* run_preprocess on tables whose onsets can lie one sample apart
InitDense ==
    /\ sfreq \in SampleRates
    /\ \E in \in DenseTables \X TriggerLists(MaxTriggers) :
        /\ T = in[1]
        /\ detected = in[2]
        /\ stim_onset_sample = in[2]
    /\ a = << >>
    /\ b = << >>
    /\ j = 0
    /\ stop = 0
    /\ log = << >>
    /\ T2 = << >>
    /\ files = {}
    /\ error = ""
    /\ pc = "fix"
    /\ behav = T
    /\ first = << >>
    /\ stim_data = << >>
    /\ batch = IdleBatch
    /\ fsys = {}
    /\ content = NoContent
    /\ mat = IdleMat
    /\ dec = IdleDec
    /\ inv = << >>

SpecDense == InitDense /\ [][Next]_vars

\* ------------------------------------------------------------------------
\* Properties
\* ------------------------------------------------------------------------
Abs(x) == IF x < 0 THEN 0 - x ELSE x

Built == pc \in {"compare", "save", "epoch", "done"}

WalkOver == pc \notin {"fix", "walk"}

N == Len(T)

M == Len(detected)

\* expected and aligned onset differences of rows k and k+1 of the table
DeltaOnset(k) == T2[k + 1].onset - T2[k].onset

DeltaStimon(k) == T[k + 1].time_stimon - T[k].time_stimon

\* C1: whenever an aligned table is built it has exactly as many rows as
\* the expected table; no table with another row count is ever produced.
C1_AlignedRowCount ==
    /\ Len(T2) \in {0, N}
    /\ Built => Len(T2) = N /\ Len(stim_onset_sample) = N

C1_Witness ==
    /\ pc = "done"
    /\ N = 4
    /\ M = 3
    /\ Len(log) = 1
    /\ Len(T2) = 4

\* C2 (as claimed): after a successful reconciliation the aligned onset
\* difference of every consecutive pair of rows is within 0.11 s of the
\* expected difference in magnitude.
C2_DeltaMagnitude ==
    pc = "done" =>
        \A k \in 1..(Len(T2) - 1) :
            Abs(DeltaOnset(k) - DeltaStimon(k)) < MatchTolerance

\* the walk position p (0-based) is the only one at which the observed gap
\* exceeds the expected gap by more than 0.11 s, the comparisons after p
\* being those of the sequence shifted by the insertion
Gap(s, k) == ToSeconds(s[k + 1], sfreq) - ToSeconds(s[k], sfreq)

OneIsolatedGap(p) ==
    /\ p \in 1..(M - 1)
    /\ \A k \in 1..(p - 1) :
           ~(Gap(detected, k) - DeltaStimon(k) > InsertThreshold)
    /\ Gap(detected, p) - DeltaStimon(p) > InsertThreshold
    /\ p + 1 <= M - 1 =>
           ~((Gap(detected, p) - DeltaStimon(p)) - DeltaStimon(p + 1)
                 > InsertThreshold)
    /\ \A k \in (p + 2)..(M - 1) :
           ~(Gap(detected, k - 1) - DeltaStimon(k) > InsertThreshold)

Repaired(p) ==
    [k \in 1..(M + 1) |->
        IF k <= p THEN detected[k]
        ELSE IF k = p + 1
             THEN ToSample(ToSeconds(detected[p], sfreq) + DeltaStimon(p),
                           sfreq)
             ELSE detected[k - 1]]

\* C3: with M = N-1 candidates and exactly one walk position p whose
\* observed gap exceeds the expected gap by more than 0.11 s, the walk
\* inserts exactly one synthesized sample, at position p, and the final
\* candidate count is N.
C3_OneIsolatedDrop ==
    \A p \in 1..(M - 1) :
        (WalkOver /\ M = N - 1 /\ N < MaxMissing /\ OneIsolatedGap(p)) =>
            /\ log = <<p>>
            /\ stim_onset_sample = Repaired(p)
            /\ Len(stim_onset_sample) = N

\* triggers at 0.2, 0.4, 1.0 s against expected onsets 0.2, 0.4, 0.6, 1.0 s
C3_Witness ==
    /\ pc = "done"
    /\ sfreq = 50
    /\ detected = <<10, 20, 50>>
    /\ [k \in 1..N |-> T[k].time_stimon] = <<20, 40, 60, 100>>
    /\ stim_onset_sample = <<10, 20, 30, 50>>
    /\ [k \in 1..N |-> T2[k].onset] = <<20, 40, 60, 100>>

\* the detected triggers are the expected onsets, measured from the first
\* one, with K = N - M of them dropped, each dropped trigger lying between
\* two detected ones (f maps a detected trigger to its expected row)
SingleDrops(f) ==
    /\ f[1] = 1
    /\ f[M] = N
    /\ \A k \in 1..(M - 1) : f[k] < f[k + 1] /\ f[k + 1] <= f[k] + 2
    /\ \A k \in 1..M :
           ToSeconds(detected[k], sfreq) - ToSeconds(detected[1], sfreq)
               = T[f[k]].time_stimon - T[1].time_stimon

\* C4 (as claimed): with K >= 2 missing triggers, each a single drop
\* between two detected triggers, the walk inserts one synthesized trigger
\* for each and the final candidate count is N.
C4_AllDropsRepaired ==
    (WalkOver /\ M >= 2 /\ N - M >= 2 /\ N - M < MaxMissing
        /\ \E f \in [1..M -> 1..N] : SingleDrops(f))
    => Len(stim_onset_sample) = N

\* C5: when the candidate count equals the expected count nothing is
\* inserted and output row i pairs candidate i with expected row i.
C5_NoMissingNoInsertion ==
    M = N =>
        /\ stim_onset_sample = detected
        /\ log = << >>
        /\ pc # "walk"
        /\ Built =>
               \A k \in 1..N :
                   /\ T2[k].onsetsample = detected[k]
                   /\ T2[k].onset = ToSeconds(detected[k], sfreq)
                   /\ T2[k].time_stimon = T[k].time_stimon
                   /\ T2[k].trial = T[k].trial

\* triggers at 0.2, 0.4, 0.6, 0.8 s against the same expected onsets
C5_Witness ==
    /\ pc = "done"
    /\ sfreq = 50
    /\ detected = <<10, 20, 30, 40>>
    /\ [k \in 1..N |-> T[k].time_stimon] = <<20, 40, 60, 80>>
    /\ [k \in 1..N |-> T2[k].onset] = <<20, 40, 60, 80>>

\* C6: with N - M >= 100 the reconciliation fails with "Too many missing
\* triggers" before anything is inserted; with 0 < N - M <= 99 the repair
\* walk is entered.
C6_TooManyMissing ==
    [][pc = "fix" =>
        /\ N - M >= MaxMissing =>
               /\ pc' = "failed"
               /\ error' = "Too many missing triggers"
               /\ stim_onset_sample' = detected
               /\ log' = << >>
        /\ (0 < N - M /\ N - M <= MaxMissing - 1) =>
               /\ pc' = "walk"
               /\ error' = ""
               /\ stop' = M]_vars

C6_Witness ==
    /\ pc = "failed"
    /\ error = "Too many missing triggers"
    /\ N - M = MaxMissing
    /\ M > 0
    /\ stim_onset_sample = detected

\* C7: with more candidates than expected rows nothing is inserted, the
\* reconciliation fails with "Found too many events!" and no aligned table
\* is built.
C7_MoreCandidatesThanRows ==
    M > N =>
        /\ stim_onset_sample = detected
        /\ log = << >>
        /\ T2 = << >>
        /\ files = {}
        /\ \/ pc \in {"fix", "counts"} /\ error = ""
           \/ pc = "failed" /\ error = "Found too many events!"

C7_Witness ==
    /\ pc = "failed"
    /\ error = "Found too many events!"
    /\ M = 4
    /\ N = 3
    /\ T2 = << >>

\* C8: after the repair walk the candidate count must equal N: fewer
\* candidates fail with "Found not enough events!", more candidates (the
\* walk inserted more than N - M samples) with "Found too many events!",
\* and in neither case is an aligned table built.
C8_CountAfterWalk ==
    [][(pc = "counts" /\ 0 < N - M /\ N - M < MaxMissing) =>
        /\ Len(stim_onset_sample) = M + Len(log)
        /\ Len(stim_onset_sample) < N =>
               /\ pc' = "failed"
               /\ error' = "Found not enough events!"
               /\ T2' = << >>
        /\ Len(stim_onset_sample) > N =>
               /\ pc' = "failed"
               /\ error' = "Found too many events!"
               /\ T2' = << >>
        /\ Len(stim_onset_sample) = N => pc' = "build" /\ error' = ""]_vars

\* the walk has inserted more samples than were missing
C8_Witness ==
    /\ pc = "failed"
    /\ error = "Found too many events!"
    /\ M < N
    /\ Len(log) > N - M
    /\ T2 = << >>

\* C9: once the counts match, the reconciliation fails with "Event times do
\* not seem to match" if and only if for some consecutive pair of rows
\* (aligned onset delta) - (expected onset delta) >= 0.11 s; every aligned
\* table goes through this check, also when nothing was inserted.
C9_ToleranceCheck ==
    [][/\ pc = "build" => pc' = "compare"
       /\ pc' \in {"save", "epoch", "done"} => pc \in {"compare", "save", "epoch"}
       /\ pc = "compare" =>
           LET exceeds == \E k \in 1..(N - 1) :
                              DeltaOnset(k) - DeltaStimon(k) >= MatchTolerance
           IN  /\ exceeds <=>
                      (pc' = "failed"
                          /\ error' = "Event times do not seem to match")
               /\ ~exceeds <=> pc' = "save"]_vars

\* the check fails on an unrepaired list whose difference is exactly 0.11 s
C9_Witness ==
    /\ pc = "failed"
    /\ error = "Event times do not seem to match"
    /\ M = N
    /\ log = << >>
    /\ \A k \in 1..(N - 1) : DeltaOnset(k) - DeltaStimon(k) <= MatchTolerance

\* n is round(fs * t / Sec), ties going to the even neighbour
IsRounded(n, t, fs) ==
    /\ 2 * Abs(fs * t - Sec * n) <= Sec
    /\ 2 * Abs(fs * t - Sec * n) = Sec => n % 2 = 0

\* C10: at step j of the walk, with da = a[j]-a[j-1] and db = b[j]-b[j-1],
\* a trigger is inserted if and only if da - db > 0.11 s; the inserted
\* time a[j-1] + db and the inserted sample round(sfreq * (a[j-1] + db))
\* are both placed at position j of their sequence.
C10_InsertionRule ==
    [][(pc = "walk" /\ j < stop) =>
        LET da == a[j + 1] - a[j]
            db == b[j + 1] - b[j]
            n  == Len(a)
        IN  /\ Len(a) = Len(stim_onset_sample)
            /\ da - db > InsertThreshold =>
                   /\ Len(a') = n + 1
                   /\ Len(stim_onset_sample') = n + 1
                   /\ a'[j + 1] = a[j] + db
                   /\ IsRounded(stim_onset_sample'[j + 1], a[j] + db, sfreq)
                   /\ \A k \in 1..j :
                          /\ a'[k] = a[k]
                          /\ stim_onset_sample'[k] = stim_onset_sample[k]
                   /\ \A k \in (j + 1)..n :
                          /\ a'[k + 1] = a[k]
                          /\ stim_onset_sample'[k + 1] = stim_onset_sample[k]
            /\ da - db <= InsertThreshold =>
                   /\ a' = a
                   /\ stim_onset_sample' = stim_onset_sample]_vars

\* step 1 met a difference of exactly 0.11 s and inserted nothing, step 2
\* inserted a sample whose time falls half-way between two samples
C10_Witness ==
    /\ pc = "walk"
    /\ j = 3
    /\ log = <<2>>
    /\ (a[2] - a[1]) - (b[2] - b[1]) = InsertThreshold
    /\ (sfreq * a[3]) % Sec # 0

\* C11: in the aligned table, row i (in expected-row order) has
\* onsetsample equal to the i-th final candidate, onset equal to that
\* sample index divided by sfreq, and eventnumber i counted from zero.
C11_AlignedColumns ==
    Built =>
        /\ Len(T2) = Len(stim_onset_sample)
        /\ \A k \in 1..Len(T2) :
               /\ T2[k].onsetsample = stim_onset_sample[k]
               /\ T2[k].onset * sfreq = stim_onset_sample[k] * Sec
               /\ T2[k].eventnumber = k - 1
               /\ T2[k].trial = k - 1

C11_Witness ==
    /\ pc = "done"
    /\ N = 5
    /\ log = <<1, 2>>
    /\ T2[5].eventnumber = 4
    /\ T2[2].onsetsample = stim_onset_sample[2]
    /\ stim_onset_sample[2] \notin Range(detected)

\* C13: for every row of a built table, also a row whose sample index was
\* synthesized by rounding, onsetsample / sfreq equals the row's onset.
C13_OnsetRoundTrip ==
    Built =>
        \A k \in 1..Len(T2) : T2[k].onsetsample * Sec = T2[k].onset * sfreq

\* a synthesized time fell between two samples and was rounded
C13_Witness ==
    /\ pc = "done"
    /\ \E p \in Range(log) :
           /\ (sfreq * a[p + 1]) % Sec # 0
           /\ T2[p + 1].onset # a[p + 1]
           /\ T2[p + 1].onsetsample = ToSample(a[p + 1], sfreq)

\* C15: with no detected edge and N >= 1 expected rows the reconciliation
\* never succeeds: it fails with "Too many missing triggers" when N >= 100
\* and with "Found not enough events!" otherwise.
C15_EmptyCandidateList ==
    (M = 0 /\ N >= 1) =>
        /\ pc \in {"fix", "walk", "counts", "failed"}
        /\ T2 = << >>
        /\ files = {}
        /\ stim_onset_sample = << >>
        /\ pc = "failed" =>
               error = IF N >= MaxMissing
                       THEN "Too many missing triggers"
                       ELSE "Found not enough events!"
        /\ pc \in {"walk", "counts"} => N < MaxMissing

C15_Witness ==
    /\ pc = "failed"
    /\ M = 0
    /\ N = 3
    /\ error = "Found not enough events!"

\* C17: the aligned table carries every behavioural field of the expected
\* table with unchanged values and in the same row order, also for rows
\* whose onset was synthesized.
C17_BehaviouralFieldsKept ==
    Built =>
        /\ Len(T2) = N
        /\ \A k \in 1..N :
               /\ DOMAIN T[k] \subseteq DOMAIN T2[k]
               /\ \A f \in DOMAIN T[k] : T2[k][f] = T[k][f]

\* the second of four rows was synthesized
C17_Witness ==
    /\ pc = "done"
    /\ N = 4
    /\ log = <<1>>
    /\ T2[2].trial = 1
    /\ T2[2].time_stimon = T[2].time_stimon
    /\ T2[2].onsetsample \notin Range(detected)

\* C20 (as claimed): with 50 fewer candidates than expected rows the
\* reconciliation fails with "Too many missing triggers".
C20_FiftyMissingFails ==
    (N - M = 50 /\ pc # "fix") =>
        (pc = "failed" /\ error = "Too many missing triggers")

\* C20 (amended): with 50 fewer candidates than expected rows the assert on
\* missing triggers passes and the repair walk is entered; with at most 50
\* candidates the walk cannot insert 50 samples and the reconciliation
\* fails with "Found not enough events!".
C20_FiftyMissingWalks ==
    (N - M = 50 /\ M <= 50) =>
        /\ pc \in {"fix", "walk", "counts", "failed"}
        /\ error # "Too many missing triggers"
        /\ pc # "fix" => stop = M /\ Len(b) = N
        /\ pc = "failed" => error = "Found not enough events!"
        /\ Len(stim_onset_sample) < N

C20_Witness ==
    /\ pc = "failed"
    /\ N - M = 50
    /\ M = 2
    /\ j = 2
    /\ error = "Found not enough events!"

\* C12: feeding the onset samples of a successfully aligned table back in
\* as the candidate list, with the same expected table and sample rate,
\* succeeds and returns the same onset samples and onsets, nothing being
\* inserted.
C12_Idempotent ==
    first # << >> =>
        /\ pc \in {"fix", "counts", "build", "compare", "save", "epoch",
                   "done"}
        /\ error = ""
        /\ log = << >>
        /\ stim_onset_sample = detected
        /\ detected = [k \in 1..Len(first[1]) |-> first[1][k].onsetsample]
        /\ Built => T2 = first[1]

\* the second reconciliation is over and the table it was fed held a
\* synthesized row
C12_Witness ==
    /\ first # << >>
    /\ pc = "done"
    /\ T2 = first[1]
    /\ N = 5
    /\ \E k \in 1..(N - 1) :
           T2[k + 1].onsetsample - T2[k].onsetsample \notin TriggerGaps

\* C18 (as claimed): a run changes neither the expected table in memory
\* nor the stored table it was loaded from.
C18_ExpectedTableReadOnly ==
    [][T' = T /\ behav' = behav]_vars

\* C14: the detector returns exactly the sample indices i with
\* signal[i+1] - signal[i] equal to the target delta, in strictly ascending
\* order without duplicates, and leaves the marker signal as it was; a
\* difference of any other value, a larger rise included, is not reported.
C14_Detector ==
    [][pc = "detect" =>
        LET out == stim_onset_sample'
        IN  /\ stim_data' = stim_data
            /\ Range(out) =
                   {i \in 0..(Len(stim_data) - 2) :
                        stim_data[i + 2] - stim_data[i + 1] = TargetDelta}
            /\ \A k \in 1..(Len(out) - 1) : out[k] < out[k + 1]
            /\ detected' = out]_vars

\* two edges of the target delta, then a fall and a rise of twice the delta
C14_Witness ==
    /\ pc = "fix"
    /\ stim_data = <<0, TargetDelta, 2 * TargetDelta, 0, 2 * TargetDelta>>
    /\ stim_onset_sample = <<0, 1>>

\* the subjects of the first n active groups, in list order
RECURSIVE Planned(_)
Planned(n) ==
    IF n = 0 THEN << >>
    ELSE LET g == batch.active_groups[n]
             l == get_subject_list(batch.notebook, batch.subjects_to_run, g)
         IN  Planned(n - 1) \o [k \in 1..Len(l) |-> <<g, l[k]>>]

\* C16: in the batch loop an exception raised for one subject is caught by
\* the caller, and every remaining subject of every active group is still
\* attempted, in list order; a failure never aborts the batch.
C16_BatchContinues ==
    LET plan == Planned(Len(batch.active_groups))
    IN  /\ Len(batch.attempts) <= Len(plan)
        /\ batch.attempts = SubSeq(plan, 1, Len(batch.attempts))
        /\ batch.pc = "finished" => batch.attempts = plan

\* three of four calls raised, the first of them included, and all four
\* subjects were attempted
C16_Witness ==
    /\ batch.pc = "finished"
    /\ batch.active_groups = <<"infants", "adults">>
    /\ batch.attempts = <<<<"infants", 2>>, <<"infants", 1>>,
                          <<"adults", 2>>, <<"adults", 1>>>>
    /\ batch.fail_count = 3
    /\ batch.success_count = 1

\* invocation i has returned or raised
Finished(i) == inv[i].pc \in {"returned", "raised"}

\* invocations i and k are for different recordings
OtherRecording(i, k) ==
    \/ inv[i].group # inv[k].group
    \/ inv[i].subjectnr # inv[k].subjectnr

\* a file found in the raw location, or else moved there from sourcedata
Located(st, dst, src) ==
    IF dst \in st THEN st
    ELSE IF src \in st THEN (st \ {src}) \cup {dst}
    ELSE st

\* the format of the events file invocation i finds, in raw or else in
\* sourcedata
FoundFormat(i) ==
    LET tsv == behavfn(inv[i].group, inv[i].subjectnr)
        src == source_behavfn(inv[i].subjectnr)
    IN  IF tsv \in inv[i].start THEN inv[i].formats[tsv]
        ELSE inv[i].formats[src]

\* what invocation i does when it runs alone on the files it started with
Alone(i) ==
    LET g == inv[i].group
        s == inv[i].subjectnr
        st == inv[i].start
        st1 == Located(st, behavfn(g, s), source_behavfn(s))
        st2 == Located(st1, raw_filename(g, s), source_filename(s))
    IN  IF GroupInfo(batch.notebook, g) = << >>
        THEN [result |-> "ValueError", files |-> st]
        ELSE IF outfn(g, s) \in st /\ inv[i].overwrite = 0
        THEN [result |-> "exists", files |-> st]
        ELSE IF behavfn(g, s) \notin st1
        THEN [result |-> "no_behaviour", files |-> st]
        ELSE IF raw_filename(g, s) \notin st2
        THEN [result |-> "no_eeg", files |-> st1]
        ELSE IF ~inv[i].data_ok \/ FoundFormat(i) # "tab"
        THEN [result |-> "error", files |-> st2]
        ELSE [result |-> "saved",
              files |-> st2 \cup {behavfn(g, s), behavcsv(g, s),
                                  outfn(g, s)}]

C21_InfantsConfigured ==
    /\ (GroupInfo(batch.notebook, "infants") # << >>)
           <=> (batch.notebook.is_file /\ batch.notebook.has_columns)
    /\ GroupInfo(batch.notebook, "adults") # << >>
    /\ \A i \in DOMAIN inv :
           (/\ inv[i].group = "infants"
            /\ batch.notebook.is_file
            /\ batch.notebook.has_columns) => inv[i].result # "ValueError"

\* C22 (as claimed): whenever run_preprocess has read the behavioural
\* events file, the separator it read with is the one the content of the
\* file is written in, also when the file was just moved from sourcedata.
C22_SeparatorMatchesFormat ==
    \A i \in DOMAIN inv :
        inv[i].sep # "" => inv[i].sep = inv[i].read_format

\* C23 (as claimed): load_mat_flexible returns a dictionary or raises
\* TypeError; a failure in either attempt never reaches the caller as
\* another exception type.
C23_OnlyTypeError ==
    mat.pc = "raised" => mat.error = "TypeError"

\* the output of the recording exists and overwriting is off, by the
\* argument or, when the argument is left out, by the configuration
OverwriteOff(i) ==
    /\ outfn(inv[i].group, inv[i].subjectnr) \in inv[i].start
    /\ \/ inv[i].overwrite_arg = 0
       \/ inv[i].overwrite_arg = None /\ CfgOverwrite = 0

\* C24: when the epochs file exists and the effective overwrite setting is
\* off, run_preprocess returns after testing that file only, and no file is
\* moved, read or written (a group that is not configured ends the run
\* with ValueError even before that test); otherwise a run that passes the
\* group check goes on to the location check of the behavioural file.
C24_OutputExistsNoOverwrite ==
    \A i \in DOMAIN inv :
        LET g == inv[i].group
            s == inv[i].subjectnr
        IN  /\ OverwriteOff(i) =>
                   /\ fsys = inv[i].start
                   /\ content = inv[i].formats
                   /\ inv[i].touched \subseteq {outfn(g, s)}
                   /\ inv[i].pc \in {"config", "check_output", "returned",
                                     "raised"}
                   /\ inv[i].pc = "returned" => inv[i].result = "exists"
                   /\ inv[i].pc = "raised" => inv[i].result = "ValueError"
            /\ ~OverwriteOff(i) =>
                   /\ inv[i].result # "exists"
                   /\ (Finished(i) /\ inv[i].result # "ValueError") =>
                          behavfn(g, s) \in inv[i].touched

\* the argument is left out, the output exists next to files waiting in
\* sourcedata, and the call has returned
C24_Witness ==
    /\ DOMAIN inv = Solo
    /\ inv[1].overwrite_arg = None
    /\ outfn(inv[1].group, inv[1].subjectnr) \in inv[1].start
    /\ source_behavfn(inv[1].subjectnr) \in inv[1].start
    /\ source_filename(inv[1].subjectnr) \in inv[1].start
    /\ inv[1].pc = "returned"
    /\ inv[1].result = "exists"
    /\ fsys = inv[1].start

\* the recording's file dst is in neither the raw nor the sourcedata
\* location when the invocation starts
InNeither(i, dst, src) == dst \notin inv[i].start /\ src \notin inv[i].start

\* C25: when the behavioural file is in neither location run_preprocess
\* returns normally and has moved and written nothing; when it is available
\* but the EEG file is in neither location the run returns normally and has
\* written no output; a file leaves sourcedata only when the raw location
\* did not hold it.
C25_MissingInputReturns ==
    \A i \in DOMAIN inv :
        LET g == inv[i].group
            s == inv[i].subjectnr
            tsv == behavfn(g, s)
            eeg == raw_filename(g, s)
        IN  /\ (InNeither(i, tsv, source_behavfn(s)) /\ tsv \in inv[i].touched)
                   => /\ inv[i].pc = "returned"
                      /\ inv[i].result = "no_behaviour"
                      /\ fsys = inv[i].start
                      /\ content = inv[i].formats
            /\ (/\ ~InNeither(i, tsv, source_behavfn(s))
                /\ InNeither(i, eeg, source_filename(s))
                /\ eeg \in inv[i].touched)
                   => /\ inv[i].pc = "returned"
                      /\ inv[i].result = "no_eeg"
                      /\ fsys = Located(inv[i].start, tsv, source_behavfn(s))
                      /\ behavcsv(g, s) \notin fsys
                      /\ content[tsv] = FoundFormat(i)
            /\ (source_behavfn(s) \in inv[i].start \ fsys)
                   => tsv \notin inv[i].start
            /\ (source_filename(s) \in inv[i].start \ fsys)
                   => eeg \notin inv[i].start

\* no behavioural file anywhere, the EEG file waiting in sourcedata: the
\* call has returned and the EEG file is still there
C25_Witness ==
    /\ DOMAIN inv = Solo
    /\ InNeither(1, behavfn(inv[1].group, inv[1].subjectnr),
                 source_behavfn(inv[1].subjectnr))
    /\ source_filename(inv[1].subjectnr) \in inv[1].start
    /\ inv[1].pc = "returned"
    /\ inv[1].result = "no_behaviour"
    /\ source_filename(inv[1].subjectnr) \in fsys

\* C26 (as claimed): run_decoding visits every (decode_type, cv_scheme)
\* pair in order, whatever pairs were skipped or failed in preparation, and
\* the results it returns hold an entry for exactly the pairs that were
\* neither skipped nor failed.
C26_EveryPairVisited ==
    dec.pc \in {"returned", "raised"} =>
        /\ dec.visited = [k \in 1..NumPairs |-> PairAt(k - 1)]
        /\ dec.pc = "returned" =>
               dec.results =
                   {analysis_name(PairAt(k)[1], PairAt(k)[2]) :
                       k \in (0..(NumPairs - 1))
                                 \ (dec.skipped \cup dec.failed)}

\* the state of the repair walk: the range is the one fixed before the
\* first step, the steps made so far are j - 1, at most one sample was
\* inserted per step, and the entries read by the next step exist
WalkBounded ==
    pc = "walk" =>
        /\ stop = M
        /\ 1 <= j /\ j <= Max(stop, 1)
        /\ Len(log) <= j - 1
        /\ Len(a) = M + Len(log)
        /\ Len(stim_onset_sample) = M + Len(log)
        /\ Len(b) = N
        /\ j < stop => (j < Len(a) /\ j < Len(b))

\* C27: the repair walk terminates: for M original candidates it makes
\* exactly M - 1 comparison steps (none when M <= 1), each step inserts at
\* most one sample, at most M - 1 samples are inserted in all, and a[j] and
\* b[j] are only read inside the working and the expected sequence.
C27_WalkTerminates ==
    [][/\ WalkBounded
       /\ WalkBounded'
       /\ (pc = "walk" /\ j < stop) =>
              /\ pc' = "walk"
              /\ j' = j + 1
              /\ stop' = stop
              /\ Len(log) <= Len(log') /\ Len(log') <= Len(log) + 1
       /\ (pc = "walk" /\ pc' # "walk") =>
              /\ pc' = "counts"
              /\ j = Max(M, 1)
              /\ Len(log) <= Max(M, 1) - 1]_vars

\* three candidates, two steps, a sample inserted at each of them
C27_Witness ==
    /\ pc = "counts"
    /\ M = 3
    /\ j = 3
    /\ Len(log) = 2

StrictlyAscending(s) == \A k \in 1..(Len(s) - 1) : s[k] < s[k + 1]

\* consecutive expected onsets are at least one sample apart and the
\* detected candidates are strictly ascending
WellOrderedInput ==
    /\ \A k \in 1..(N - 1) :
           sfreq * (T[k + 1].time_stimon - T[k].time_stimon) >= Sec
    /\ StrictlyAscending(detected)

\* C28: with expected onsets at least one sample apart and strictly
\* ascending candidates, the working times and the working samples have
\* equal length and are strictly ascending after every step of the walk,
\* so the final onset samples hold no duplicate and no out-of-order entry.
C28_WalkKeepsOrder ==
    WellOrderedInput =>
        /\ StrictlyAscending(stim_onset_sample)
        /\ a # << >> =>
               /\ Len(a) = Len(stim_onset_sample)
               /\ StrictlyAscending(a)
        /\ Built => \A k \in 1..(Len(T2) - 1) :
                        T2[k].onsetsample < T2[k + 1].onsetsample

\* a fatal condition of the reconciliation has fired
Fatal ==
    /\ pc = "failed"
    /\ error \in {"Too many missing triggers", "Found too many events!",
                  "Found not enough events!",
                  "Event times do not seem to match"}

\* C29: when one of the four fatal conditions fires, the run writes neither
\* the events table (.tsv, .csv) nor the epochs file: the step that raises
\* leaves the files alone, nothing was written before it in that run, and a
\* file is only written from a state in which no error was raised, the
\* counts are equal and every difference is below the tolerance.
C29_NoWriteBeforeCheck ==
    /\ [](pc = "failed" => Fatal)
    /\ []((first = << >> /\ pc \notin {"epoch", "done"}) => files = {})
    /\ [][/\ Fatal' => files' = files
          /\ files' # files =>
                 /\ pc \in {"save", "epoch"}
                 /\ error = ""
                 /\ Len(stim_onset_sample) = Len(T)
                 /\ missingtriggers < MaxMissing
                 /\ \A k \in 1..Len(diffs(T2)) :
                        ~diffs(T2)[k].nan /\ diffs(T2)[k].v < MatchTolerance
       ]_vars

\* the tolerance check has failed on a repaired recording, nothing is written
C29_Witness ==
    /\ Fatal
    /\ error = "Event times do not seem to match"
    /\ log # << >>
    /\ first = << >>
    /\ files = {}

\* C30: after any number of subjects, success_count + fail_count is the
\* number of subjects attempted; fail_count is the number of calls that
\* raised and success_count the number of calls that returned, the calls
\* that returned early for a missing input file included.
C30_CountsPartitionAttempts ==
    /\ batch.outcomes.completed + batch.outcomes.missing_input
           + batch.outcomes.raised = Len(batch.attempts)
    /\ batch.success_count + batch.fail_count = Len(batch.attempts)
    /\ batch.fail_count = batch.outcomes.raised
    /\ batch.success_count =
           batch.outcomes.completed + batch.outcomes.missing_input

\* one call ran to the end, one returned early for a missing input file and
\* two raised
C30_Witness ==
    /\ batch.pc = "finished"
    /\ Len(batch.attempts) = 4
    /\ batch.outcomes.completed = 1
    /\ batch.outcomes.missing_input = 1
    /\ batch.success_count = 2
    /\ batch.fail_count = 2

====
